---- MODULE Spec2Model ----
(***************************************************************************)
(* Model of the draw.io MCP server (mcp-server/src/drawio_mcp_server):     *)
(* the diff-based editing tools (tools/diff_tools.py), the display path    *)
(* (tools/diagram_tools.py), the validator (validator.py), the client of   *)
(* the web service (web_client.py) and the diagram generator               *)
(* (diagram_generator.py).                                                 *)
(*                                                                         *)
(* The Surface (the browser side that owns the Document, the Baseline and  *)
(* the store of submitted batches) is not part of the Python sources.  Its *)
(* definitions below follow the written specification and are marked so.   *)
(* Everything the Python sources decide (request ids, the poll loop, the   *)
(* translation of an operation into a patch, the ids of added cells, the   *)
(* validation and repair of a document text) is translated from them.      *)
(***************************************************************************)
EXTENDS Integers, Sequences, FiniteSets, TLC

VARIABLES
    clock,      \* int(time.time() * 1000): the millisecond the process is in
    hashOf,     \* Python's hash() of this process (seeded at start), % 10000
    pc,         \* per apply call: "idle", "polling" or "done"
    callOps,    \* per apply call: its `operations` argument
    callKeep,   \* per apply call: its `preserve_user_changes` argument
    rid,        \* per apply call: the request_id it generated
    polls,      \* per apply call: iterations of the poll loop started so far
    lastResp,   \* per apply call: kind of the last get_apply_result response
    outcome,    \* per apply call: what the call returned
    surf,       \* Surface: submitted batches and their results, by requestId
    doc,        \* Surface: the canonical Document (ordered cells)
    baseline,   \* Surface: the Baseline of the last Sync
    syncPc,     \* sync call: "idle", "fetched" (content read), "done", "failed"
    syncXml,    \* sync call: the content it read
    humanEdits, \* number of human edits made so far
    gets,       \* number of get_diagram_changes calls made so far
    changes,    \* get_diagram_changes: what the last call returned
    seen,       \* Surface: the Document and Baseline of its last ChangeSet
    dispPc,     \* display call: "idle", "sending" or "done"
    dispXml,    \* display call: its `xml` argument
    dispSent,   \* display call: the text of its display request, or NoText
    dispMsgs,   \* display call: the messages of its result so far
    valPc,      \* validator: "idle", "input", "validated" or "fixed"
    valXml,     \* validator: the text validate and validate_and_fix are given
    valRootOnly, \* validator: the is_root_only argument of validate
    valResult,  \* validator: what validate returned
    fixResult,  \* validator: what validate_and_fix returned
    active,     \* Surface: the tab the human has in front
    otherBaseline, \* Surface: the Baseline of the tab the session is not in
    syncTab,    \* sync call: the tab that was active when it was issued
    webPc,      \* start_web_server: "idle", "waitPort" or "waitStart"
    webWaits,   \* start_web_server: the sleeps of its present wait loop
    webResult,  \* start_web_server: "True" or "False" as the last call returned, or "none"
    procs,      \* the child processes spawned so far, each with its status
    _web_process, \* WebClient._web_process: index in procs, 0 for None
    foreign,    \* who else holds the port: "none", "other" or "service"
    auto_start_web, \* config.auto_start_web
    id_counter, \* DiagramGenerator.id_counter
    genDocs     \* the documents create_diagram has returned, in order

hostVars == <<active, otherBaseline, syncTab, webPc, webWaits, webResult,
              procs, _web_process, foreign, auto_start_web, id_counter,
              genDocs>>

vars == <<clock, hashOf, pc, callOps, callKeep, rid, polls, lastResp, outcome,
          surf, doc, baseline, syncPc, syncXml, humanEdits,
          gets, changes, seen, dispPc, dispXml, dispSent, dispMsgs,
          valPc, valXml, valRootOnly, valResult, fixResult, hostVars>>

trackVars == <<gets, changes, seen>>

diffVars == <<clock, hashOf, pc, callOps, callKeep, rid, polls, lastResp,
              outcome, surf, doc, baseline, syncPc, syncXml, humanEdits,
              trackVars>>

dispVars == <<dispPc, dispXml, dispSent, dispMsgs>>

valVars == <<valPc, valXml, valRootOnly, valResult, fixResult>>

(***************************************************************************)
(* Bounds of the model.                                                    *)
(***************************************************************************)
\* Number of apply_diagram_changes calls of one run.
NCalls == 2
\* Milliseconds the clock can advance.
MaxClock == 1
\* Distinct values of hash(...) % 10000 the model distinguishes.
HashRange == 2
\* Human edits of one run.
MaxHumanEdits == 1
\* get_diagram_changes calls of one run.
MaxGets == 2

Calls == 1..NCalls
\* A request id is "op-<ms>"; a submission is made at a millisecond
\* after which the clock can still advance.
RIds == 0..(MaxClock - 1)

(***************************************************************************)
(* Program constants.                                                      *)
(***************************************************************************)
\* for _ in range(20)
PollBudget == 20

(***************************************************************************)
(* Cells and Documents.                                                    *)
(***************************************************************************)
NoId == "<no id>"
NoValue == "<no value>"

\* A new Cell has the style "s0" and the geometry "g0" of the Surface.
Cell(id, kind, value, source, target) ==
    [id |-> id, kind |-> kind, value |-> value, source |-> source,
     target |-> target, style |-> "s0", geometry |-> "g0"]

RootCell == Cell("0", "root", "", "", "")
LayerCell == Cell("1", "layer", "", "", "")
EmptyDocument == <<RootCell, LayerCell>>

HasId(d, id) == \E i \in 1..Len(d) : d[i].id = id

\* The cells of d that carry the id, in order.
ContentOf(d, id) == SelectSeq(d, LAMBDA c : c.id = id)

IdsUnique(d) == \A i, j \in 1..Len(d) : d[i].id = d[j].id => i = j

(***************************************************************************)
(* Operations (the dicts of apply_diagram_changes).                        *)
(***************************************************************************)
Op(kind, id, value, source, target) ==
    [op |-> kind, id |-> id, value |-> value, source |-> source,
     target |-> target]

AddNode(id, value) == Op("add_node", id, value, "", "")
ModifyNode(id, value) == Op("modify_node", id, value, "", "")
DeleteNode(id) == Op("delete_node", id, NoValue, "", "")
AddEdge(id, source, target) == Op("add_edge", id, NoValue, source, target)
ModifyEdge(id, value) == Op("modify_edge", id, value, "", "")
DeleteEdge(id) == Op("delete_edge", id, NoValue, "", "")

(***************************************************************************)
(* operation_to_xml_patch and its generators (diff_tools.py).  A patch is  *)
(* the new cell of an add, a modify or delete instruction, or the empty    *)
(* string.                                                                 *)
(***************************************************************************)
GenNodeId(h) == "node-" \o ToString(h)
GenEdgeId(h) == "edge-" \o ToString(h)

Patch(type, id, cell, value) ==
    [type |-> type, id |-> id, cell |-> cell, value |-> value]

EmptyPatch == Patch("empty", NoId, RootCell, NoValue)

\* An id made of the value itself instead of its hash.
AddNodeIdFromValue(op) ==
    IF op.id = NoId THEN "node-" \o op.value ELSE op.id

\* node_id = op.get("id", f"node-{hash(value) % 10000}")
AddNodeId(op) ==
    IF op.id = NoId THEN GenNodeId(hashOf[op.value]) ELSE op.id

\* edge_id = op.get("id", f"edge-{hash(source + target) % 10000}")
AddEdgeId(op) ==
    IF op.id = NoId THEN GenEdgeId(hashOf[op.source \o op.target]) ELSE op.id

_generate_add_node_xml(op) ==
    Patch("cell", AddNodeId(op),
          Cell(AddNodeId(op), "node", op.value, "", ""), NoValue)

_generate_add_edge_xml(op) ==
    Patch("cell", AddEdgeId(op),
          Cell(AddEdgeId(op), "edge",
               IF op.value = NoValue THEN "" ELSE op.value,
               op.source, op.target), NoValue)

_generate_modify_node_xml(op) == Patch("modify", op.id, RootCell, op.value)

_generate_delete_node_xml(op) == Patch("delete", op.id, RootCell, NoValue)

operation_to_xml_patch(op) ==
    IF op.op = "add_node" THEN _generate_add_node_xml(op)
    ELSE IF op.op = "modify_node" THEN _generate_modify_node_xml(op)
    ELSE IF op.op = "delete_node" THEN _generate_delete_node_xml(op)
    ELSE IF op.op = "add_edge" THEN _generate_add_edge_xml(op)
    ELSE EmptyPatch

(***************************************************************************)
(* The Surface's evaluation of one operation (specification, 4.2 and 4.4): *)
(* the conflict checks, then the patch of operation_to_xml_patch applied   *)
(* to the Document.                                                        *)
(***************************************************************************)
TargetKinds == {"modify_node", "modify_edge", "delete_node", "delete_edge"}
AddKinds == {"add_node", "add_edge"}

\* Modify/Delete target missing, or Edge endpoint missing.
RefMissing(d, op) ==
    \/ op.op \in TargetKinds /\ ~HasId(d, op.id)
    \/ op.op = "add_edge" /\ (~HasId(d, op.source) \/ ~HasId(d, op.target))

\* The target's current content differs from what it was at the Baseline.
Stale(d, base, op, keep) ==
    /\ keep
    /\ op.op \in TargetKinds
    /\ ContentOf(d, op.id) # ContentOf(base, op.id)

\* An explicit-id Add collides with an existing Cell.
Duplicate(d, op) ==
    op.op \in AddKinds /\ op.id # NoId /\ HasId(d, op.id)

ConflictOf(d, base, op, keep) ==
    IF RefMissing(d, op) THEN "ReferencedIdNotFound"
    ELSE IF Stale(d, base, op, keep) THEN "StaleIntent"
    ELSE IF Duplicate(d, op) THEN "DuplicateId"
    ELSE "none"

ApplyPatch(d, p) ==
    IF p.type = "cell" THEN Append(d, p.cell)
    ELSE IF p.type = "modify"
        THEN [i \in 1..Len(d) |->
                 IF d[i].id = p.id /\ p.value # NoValue
                 THEN [d[i] EXCEPT !.value = p.value] ELSE d[i]]
    ELSE IF p.type = "delete" THEN SelectSeq(d, LAMBDA c : c.id # p.id)
    ELSE d

\* The id an operation's outcome is reported under.
OutcomeId(op) ==
    IF op.op \in AddKinds THEN operation_to_xml_patch(op).id ELSE op.id

\* One operation against the running Document: the Document after it and
\* the operation's outcome.
Evaluate(d, base, op, keep) ==
    LET why == ConflictOf(d, base, op, keep) IN
    IF why = "none"
    THEN [doc |-> ApplyPatch(d, operation_to_xml_patch(op)),
          out |-> [reason |-> "applied", id |-> OutcomeId(op)]]
    ELSE [doc |-> d, out |-> [reason |-> why, id |-> OutcomeId(op)]]

\* A stored batch: nothing, a pending batch with the outcomes so far, or a
\* done one.  `by` is the call whose submission it came from.
NoBatch ==
    [state |-> "none", ops |-> <<>>, keep |-> FALSE, by |-> 0,
     outcomes |-> <<>>]

\* ApplyResult {applied, conflicts: [{opIndex, id, reason}]}.
ConflictsOf(outs) ==
    LET idx == SelectSeq([i \in 1..Len(outs) |-> i],
                         LAMBDA i : outs[i].reason # "applied")
    IN [k \in 1..Len(idx) |->
           [opIndex |-> idx[k], id |-> outs[idx[k]].id,
            reason |-> outs[idx[k]].reason]]

ApplyResultOf(b) ==
    [applied |-> Len(SelectSeq(b.outcomes, LAMBDA o : o.reason = "applied")),
     conflicts |-> ConflictsOf(b.outcomes)]

(***************************************************************************)
(* Inputs: the Documents a session starts with and the batches an agent    *)
(* submits.                                                                *)
(***************************************************************************)
SampleDocument ==
    <<RootCell, LayerCell, Cell("n1", "node", "A", "", ""),
      Cell("n2", "node", "N", "", ""), Cell("e1", "edge", "", "n1", "n2")>>

InitialDocuments == {EmptyDocument, SampleDocument}

\* Values of the nodes added without an id, and what the human types.
NodeValues == {"Start", "End"}
HumanValue == "B"

\* The ids the two nodes of Scenario A get in this process.
IdStart == GenNodeId(hashOf["Start"])
IdEnd == GenNodeId(hashOf["End"])

ScenarioA ==
    <<AddNode(NoId, "Start"), AddNode(NoId, "End"),
      AddEdge(NoId, IdStart, IdEnd)>>
EdgeBeforeNodes ==
    <<AddEdge(NoId, IdStart, IdEnd), AddNode(NoId, "Start"),
      AddNode(NoId, "End")>>
ScenarioB == <<ModifyNode("missing-99", "x")>>
ModifyN1 == <<ModifyNode("n1", "C")>>
DeleteN1 == <<DeleteNode("n1")>>
ModifyE1 == <<ModifyEdge("e1", "L")>>
DeleteE1 == <<DeleteEdge("e1")>>
MixedBatch ==
    <<ModifyNode("missing-99", "x"), AddNode("n3", "N"), DeleteNode("n1"),
      AddEdge("e2", "n2", "missing-99")>>
AddTwice == <<AddNode(NoId, "Start"), AddNode(NoId, "Start")>>
AddDeleteAdd ==
    <<AddNode(NoId, "Start"), DeleteNode(IdStart), AddNode(NoId, "Start")>>
AddExisting == <<AddNode("n1", "D")>>
ReplaceLayer == <<DeleteNode("1"), AddNode("1", "D")>>

\* Batches that only add, and batches with a Modify or a Delete.
AddBatches == {ScenarioA, EdgeBeforeNodes, AddTwice, AddExisting}
TargetBatches ==
    {ScenarioB, ModifyN1, DeleteN1, ModifyE1, DeleteE1, MixedBatch,
     AddDeleteAdd, ReplaceLayer}

\* The arguments of a call: preserve_user_changes is left at its default
\* (True) where the batch has no Modify and no Delete.
Submissions ==
    ((AddBatches \cup {<<>>}) \X {TRUE}) \cup (TargetBatches \X BOOLEAN)

\* The strings hashed by the batches above: the node values, and
\* source + target of the edge of Scenario A.
EdgeKeys(nh) == {GenNodeId(nh["Start"]) \o GenNodeId(nh["End"])}
Hashes == 0..(HashRange - 1)

(***************************************************************************)
(* apply_diagram_changes_impl (diff_tools.py).                             *)
(***************************************************************************)
NoOutcome == [kind |-> "none", applied |-> 0, conflicts |-> 0]
Returned(kind) == [kind |-> kind, applied |-> 0, conflicts |-> 0]

\* request_id = f"op-{int(time.time() * 1000)}"
NewRequestId == clock

\* A submission that leaves preserve_user_changes out of the request.
SubmittedWithoutFlag(c, ops, keep) ==
    [state |-> "pending", ops |-> ops, keep |-> FALSE, by |-> c,
     outcomes |-> <<>>]

\* What apply_diagram_operations hands to the Surface.
SubmittedBatch(c, ops, keep) ==
    [state |-> "pending", ops |-> ops, keep |-> keep, by |-> c,
     outcomes |-> <<>>]

\* A report that counts every operation of the batch as applied.
CompletedCountingAll(result) ==
    [kind |-> "Completed",
     applied |-> result.applied + Len(result.conflicts),
     conflicts |-> Len(result.conflicts)]

\* applied = apply_result.get("applied", len(operations));
\* conflicts = apply_result.get("conflicts", [])
Completed(result) ==
    [kind |-> "Completed", applied |-> result.applied,
     conflicts |-> Len(result.conflicts)]

\* The call up to the answer to its submission (a call slot is taken again
\* once its call has returned): no operations, the
\* submission acknowledged (the Surface stores the batch under the id), or
\* the submission failed.
Start(c, ops, keep) ==
    /\ pc[c] # "polling"
    /\ clock < MaxClock
    /\ polls' = [polls EXCEPT ![c] = 0]
    /\ lastResp' = [lastResp EXCEPT ![c] = "none"]
    /\ callOps' = [callOps EXCEPT ![c] = ops]
    /\ callKeep' = [callKeep EXCEPT ![c] = keep]
    /\ IF ops = <<>>
       THEN /\ pc' = [pc EXCEPT ![c] = "done"]
            /\ outcome' = [outcome EXCEPT ![c] = Returned("NoOperations")]
            /\ UNCHANGED <<rid, surf>>
       ELSE /\ rid' = [rid EXCEPT ![c] = NewRequestId]
            /\ \/ /\ surf' = [surf EXCEPT ![NewRequestId] =
                                  SubmittedBatch(c, ops, keep)]
                  /\ pc' = [pc EXCEPT ![c] = "polling"]
                  /\ outcome' = [outcome EXCEPT ![c] = NoOutcome]
               \/ /\ pc' = [pc EXCEPT ![c] = "done"]
                  /\ outcome' = [outcome EXCEPT ![c] = Returned("SubmitFailed")]
                  /\ UNCHANGED surf
    /\ UNCHANGED <<clock, hashOf, doc, baseline, syncPc, syncXml,
                   humanEdits, dispVars,
                   trackVars, valVars, hostVars>>

\* get_apply_result(request_id): the transport fails, or the Surface
\* answers from its store.
PollResponses(r) ==
    {"error",
     IF surf[r].state = "pending" THEN "pending"
     ELSE IF surf[r].state = "done" THEN "completed"
     ELSE "no matching operation"}

\* A loop that takes a completed result for one more pending answer.
PollReturnMissingResult(n, resp, result) ==
    IF resp = "error" THEN Returned("PollFailed")
    ELSE IF n = PollBudget THEN Returned("TimedOut")
    ELSE NoOutcome

\* What the n-th iteration of the poll loop makes the call return, or
\* NoOutcome when the loop goes on: an error or a successful result is
\* returned at once; after the last iteration the call times out.
PollReturn(n, resp, result) ==
    IF resp = "error" THEN Returned("PollFailed")
    ELSE IF resp = "completed" THEN Completed(result)
    ELSE IF n = PollBudget THEN Returned("TimedOut")
    ELSE NoOutcome

\* One iteration of the poll loop, and the return that follows it when the
\* loop ends: sleep 0.5 s, ask for the result, return or go on.
Poll(c) ==
    /\ pc[c] = "polling"
    /\ polls[c] < PollBudget
    /\ clock > rid[c]
    /\ \E resp \in PollResponses(rid[c]) :
          LET out == PollReturn(polls[c] + 1, resp,
                                ApplyResultOf(surf[rid[c]]))
          IN /\ polls' = [polls EXCEPT ![c] = @ + 1]
             /\ lastResp' = [lastResp EXCEPT ![c] = resp]
             /\ outcome' = [outcome EXCEPT ![c] = out]
             /\ pc' = [pc EXCEPT ![c] =
                          IF out = NoOutcome THEN "polling" ELSE "done"]
    /\ UNCHANGED <<clock, hashOf, callOps, callKeep, rid, surf, doc, baseline,
                   syncPc, syncXml, humanEdits, dispVars,
                   trackVars, valVars, hostVars>>

\* Time passes.
Tick ==
    /\ clock < MaxClock
    /\ clock' = clock + 1
    /\ UNCHANGED <<hashOf, pc, callOps, callKeep, rid, polls, lastResp,
                   outcome, surf, doc, baseline, syncPc, syncXml, humanEdits,
                   dispVars, trackVars, valVars, hostVars>>

(***************************************************************************)
(* The Surface (specification 4.2, 4.4, 5): it evaluates the operations of *)
(* a stored batch in order, each against the running Document; it may      *)
(* discard a result; the human edits the Document.                         *)
(***************************************************************************)
SurfaceStep(r) ==
    /\ surf[r].state = "pending"
    /\ LET b == surf[r]
           op == b.ops[Len(b.outcomes) + 1]
           ev == Evaluate(doc, baseline, op, b.keep)
           outs == Append(b.outcomes, ev.out)
       IN /\ doc' = ev.doc
          /\ surf' = [surf EXCEPT ![r] =
                         [b EXCEPT !.outcomes = outs,
                                   !.state = IF Len(outs) = Len(b.ops)
                                             THEN "done" ELSE "pending"]]
    /\ UNCHANGED <<clock, hashOf, pc, callOps, callKeep, rid, polls, lastResp,
                   outcome, baseline, syncPc, syncXml, humanEdits, dispVars,
                   trackVars, valVars, hostVars>>

SurfaceDiscard(r) ==
    /\ surf[r].state = "done"
    /\ surf' = [surf EXCEPT ![r] = NoBatch]
    /\ UNCHANGED <<clock, hashOf, pc, callOps, callKeep, rid, polls, lastResp,
                   outcome, doc, baseline, syncPc, syncXml, humanEdits,
                   dispVars, trackVars, valVars, hostVars>>

\* The cells the human edits.
HumanTargets == {"n1", "e1"}
Editable(c) == c.id \in HumanTargets

HumanSetValue(i) ==
    /\ humanEdits < MaxHumanEdits
    /\ i \in 1..Len(doc)
    /\ Editable(doc[i])
    /\ doc[i].value # HumanValue
    /\ doc' = [doc EXCEPT ![i].value = HumanValue]
    /\ humanEdits' = humanEdits + 1
    /\ UNCHANGED <<clock, hashOf, pc, callOps, callKeep, rid, polls, lastResp,
                   outcome, surf, baseline, syncPc, syncXml, dispVars,
                   trackVars, valVars, hostVars>>

HumanDelete(i) ==
    /\ humanEdits < MaxHumanEdits
    /\ i \in 1..Len(doc)
    /\ Editable(doc[i])
    /\ doc' = SelectSeq(doc, LAMBDA c : c.id # doc[i].id)
    /\ humanEdits' = humanEdits + 1
    /\ UNCHANGED <<clock, hashOf, pc, callOps, callKeep, rid, polls, lastResp,
                   outcome, surf, baseline, syncPc, syncXml, dispVars,
                   trackVars, valVars, hostVars>>

(***************************************************************************)
(* sync_diagram_state_impl (diff_tools.py): read the current content, then *)
(* hand it to the Surface as the new Baseline.                             *)
(***************************************************************************)
\* The content of a tab: the session works in tab "t1"; nobody edits the
\* other tab, "t2", whose Document stays the empty one.
TabDocument(t) == IF t = "t1" THEN doc ELSE EmptyDocument

\* A read of the content that already makes it the Baseline.
SyncFetchAndStore ==
    /\ syncPc = "idle"
    /\ \/ /\ syncPc' = "fetched" /\ syncXml' = TabDocument(active)
          /\ syncTab' = active
          /\ IF active = "t1"
                THEN baseline' = syncXml' /\ UNCHANGED otherBaseline
                ELSE otherBaseline' = syncXml' /\ UNCHANGED baseline
       \/ syncPc' = "failed" /\ UNCHANGED <<syncXml, syncTab, baseline, otherBaseline>>
    /\ UNCHANGED <<clock, hashOf, pc, callOps, callKeep, rid, polls, lastResp,
                   outcome, surf, doc, humanEdits, dispVars, trackVars,
                   valVars, active, webPc, webWaits, webResult, procs,
                   _web_process, foreign, auto_start_web, id_counter, genDocs>>

\* get_diagram_content() is asked without a tab id: it answers with the
\* content of the tab that is active at that moment.
SyncFetch ==
    /\ syncPc = "idle"
    /\ \/ /\ syncPc' = "fetched" /\ syncXml' = TabDocument(active)
          /\ syncTab' = active
       \/ syncPc' = "failed" /\ UNCHANGED <<syncXml, syncTab>>
    /\ UNCHANGED <<clock, hashOf, pc, callOps, callKeep, rid, polls, lastResp,
                   outcome, surf, doc, baseline, humanEdits, dispVars,
                   trackVars, valVars, active, otherBaseline, webPc, webWaits,
                   webResult, procs, _web_process, foreign, auto_start_web,
                   id_counter, genDocs>>

\* sync_diff_state(xml) names no tab either: the Surface makes the text the
\* Baseline of the tab that is active when the request arrives.
SyncStore ==
    /\ syncPc = "fetched"
    /\ \/ /\ syncPc' = "done"
          /\ IF active = "t1"
                THEN baseline' = syncXml /\ UNCHANGED otherBaseline
                ELSE otherBaseline' = syncXml /\ UNCHANGED baseline
       \/ syncPc' = "failed" /\ UNCHANGED <<baseline, otherBaseline>>
    /\ UNCHANGED <<clock, hashOf, pc, callOps, callKeep, rid, polls, lastResp,
                   outcome, surf, doc, syncXml, humanEdits, dispVars,
                   trackVars, valVars, active, syncTab, webPc, webWaits,
                   webResult, procs, _web_process, foreign, auto_start_web,
                   id_counter, genDocs>>

\* The human brings the other tab to the front.
HumanSwitch ==
    /\ active' = (IF active = "t1" THEN "t2" ELSE "t1")
    /\ UNCHANGED <<diffVars, dispVars, valVars, otherBaseline, syncTab, webPc,
                   webWaits, webResult, procs, _web_process, foreign,
                   auto_start_web, id_counter, genDocs>>

(***************************************************************************)
(* Document texts.  A text is what the validator can tell about it: the    *)
(* wrappers the server has put around it (innermost first), what the       *)
(* original text starts with, whether its markup is well formed, whether   *)
(* an mxfile has its <diagram> and <mxGraphModel>, and its mxCell elements.*)
(***************************************************************************)
MxCell(id, vertex, parent, geometry, oddQuote) ==
    [id |-> id, vertex |-> vertex, parent |-> parent, geometry |-> geometry,
     oddQuote |-> oddQuote]

Text(starts, wellFormed, diagram, model, cells) ==
    [wraps |-> <<>>, starts |-> starts, wellFormed |-> wellFormed,
     diagram |-> diagram, model |-> model, cells |-> cells]

NoText == [wraps |-> <<>>, starts |-> "none", wellFormed |-> FALSE,
           diagram |-> FALSE, model |-> FALSE, cells |-> <<>>]

\* <mxCell id="0"/> and <mxCell id="1" parent="0"/>
Cell0 == MxCell("0", FALSE, NoId, FALSE, FALSE)
Cell1 == MxCell("1", FALSE, "0", FALSE, FALSE)

\* f'<root>\n  <mxCell id="0"/>\n  <mxCell id="1" parent="0"/>\n{xml}\n</root>'
RootWrap(x) == [x EXCEPT !.wraps = Append(@, "root")]

\* DiagramGenerator._wrap_for_browser
_wrap_for_browser(x) == [x EXCEPT !.wraps = Append(@, "mxfile")]

\* xml.strip().startswith('<mxfile') / startswith('<root>')
StartsWith(x, tag) ==
    IF x.wraps # <<>> THEN x.wraps[Len(x.wraps)] = tag ELSE x.starts = tag

\* '<mxCell' in xml
ContainsMxCell(x) ==
    x.cells # <<>> \/ \E i \in 1..Len(x.wraps) : x.wraps[i] = "root"

\* ET.fromstring(xml) succeeds: well-formed markup with one outermost
\* element.
Parses(x) ==
    /\ x.wellFormed
    /\ x.wraps # <<>> \/ x.starts \in {"mxfile", "root"} \/ Len(x.cells) = 1

\* root.tag
RootTag(x) ==
    IF x.wraps # <<>> THEN x.wraps[Len(x.wraps)]
    ELSE IF x.starts = "other" THEN "mxCell" ELSE x.starts

\* root.find('diagram') and diagram.find('mxGraphModel')
HasDiagram(x) == IF x.wraps # <<>> THEN TRUE ELSE x.diagram
HasGraphModel(x) == IF x.wraps # <<>> THEN TRUE ELSE x.model

\* root.iter('mxCell'): every mxCell of the text in document order, the
\* cells of an outer wrapper first.
RECURSIVE WrapCells(_, _)
WrapCells(w, n) ==
    IF n = 0 THEN <<>>
    ELSE (IF w[n] = "root" THEN <<Cell0, Cell1>> ELSE <<>>)
         \o WrapCells(w, n - 1)

IterCells(x) == WrapCells(x.wraps, Len(x.wraps)) \o x.cells

\* root.findall('mxCell'): the mxCell children of a <root> element.
RootChildren(x) ==
    IF x.wraps # <<>>
    THEN <<Cell0, Cell1>>
         \o (IF Len(x.wraps) = 1 /\ x.starts = "other" THEN x.cells ELSE <<>>)
    ELSE x.cells

(***************************************************************************)
(* validator.py: DiagramValidator.validate and validate_and_fix.           *)
(***************************************************************************)
Finding(level, location) == [level |-> level, location |-> location]

\* The findings of a loop over the cells, given those of each iteration.
RECURSIVE Collect(_)
Collect(perCell) ==
    IF perCell = <<>> THEN <<>>
    ELSE Head(perCell) \o Collect(Tail(perCell))

CellName(c) == IF c.id = NoId THEN "unknown" ELSE c.id

_check_xml_syntax(x) ==
    IF Parses(x) THEN <<>> ELSE <<Finding("error", "xml_syntax")>>

_check_root_structure(x) ==
    IF RootTag(x) # "root" THEN <<Finding("error", "root_element")>>
    ELSE (IF \E i \in 1..Len(RootChildren(x)) : RootChildren(x)[i].id = "0"
          THEN <<>> ELSE <<Finding("error", "mxCell_0")>>)
      \o (IF \E i \in 1..Len(RootChildren(x)) : RootChildren(x)[i].id = "1"
          THEN <<>> ELSE <<Finding("error", "mxCell_1")>>)

_check_mxfile_structure(x) ==
    IF RootTag(x) # "mxfile" THEN <<Finding("error", "mxfile_element")>>
    ELSE IF ~HasDiagram(x) THEN <<Finding("error", "diagram_element")>>
    ELSE IF ~HasGraphModel(x) THEN <<Finding("error", "mxGraphModel_element")>>
    ELSE <<>>

ElementFindings(cells, i) ==
    IF cells[i].id \in {"0", "1"} THEN <<>>
    ELSE (IF cells[i].parent = NoId /\ cells[i].vertex
          THEN <<Finding("warning", "mxCell_" \o CellName(cells[i]))>>
          ELSE <<>>)
      \o (IF cells[i].vertex /\ ~cells[i].geometry
          THEN <<Finding("warning", "mxCell_" \o CellName(cells[i]))>>
          ELSE <<>>)

_check_mxcell_elements(x) == 
    Collect([i \in 1..Len(IterCells(x)) |-> ElementFindings(IterCells(x), i)])

\* A repeated id reported as a warning.
UniquenessWarnings(cells, i) ==
    IF /\ cells[i].id # NoId
       /\ \E j \in 1..(i - 1) : cells[j].id = cells[i].id
    THEN <<Finding("warning", "mxCell_" \o cells[i].id)>>
    ELSE <<>>

UniquenessFindings(cells, i) ==
    IF /\ cells[i].id # NoId
       /\ \E j \in 1..(i - 1) : cells[j].id = cells[i].id
    THEN <<Finding("error", "mxCell_" \o cells[i].id)>>
    ELSE <<>>

_check_id_uniqueness(x) == 
    Collect([i \in 1..Len(IterCells(x)) |->
                UniquenessFindings(IterCells(x), i)])

StyleFindings(cells, i) ==
    IF cells[i].id \notin {"0", "1"} /\ cells[i].oddQuote
    THEN <<Finding("warning",
                   "mxCell_" \o CellName(cells[i]) \o "_style")>>
    ELSE <<>>

_check_styles(x) == 
    Collect([i \in 1..Len(IterCells(x)) |-> StyleFindings(IterCells(x), i)])

\* Any finding counted as an error.
HasFindings(findings) == findings # <<>>

HasErrors(findings) ==
    \E i \in 1..Len(findings) : findings[i].level = "error"

validate(x, is_root_only) ==
    IF ~Parses(x)
    THEN [valid |-> FALSE, findings |-> _check_xml_syntax(x)]
    ELSE LET found ==
                (IF is_root_only THEN _check_root_structure(x)
                 ELSE _check_mxfile_structure(x))
                \o _check_mxcell_elements(x)
                \o _check_id_uniqueness(x)
                \o _check_styles(x)
         IN [valid |-> ~HasErrors(found), findings |-> found]

validate_and_fix(x) ==
    IF validate(x, FALSE).valid
    THEN [xml |-> x, fixed |-> FALSE]
    ELSE IF ~StartsWith(x, "root") /\ ContainsMxCell(x)
         THEN [xml |-> RootWrap(x), fixed |-> TRUE]
         ELSE [xml |-> x, fixed |-> FALSE]

\* A call of validate, and a call of validate_and_fix, on the text and the
\* mode of the run.
NoResult == [valid |-> FALSE, findings |-> <<>>]
NoFix == [xml |-> NoText, fixed |-> FALSE]

ValidateCall ==
    /\ valPc = "input"
    /\ valPc' = "validated"
    /\ valResult' = validate(valXml, valRootOnly)
    /\ UNCHANGED <<valXml, valRootOnly, fixResult, diffVars, dispVars, hostVars>>

FixCall ==
    /\ valPc = "validated"
    /\ valPc' = "fixed"
    /\ fixResult' = validate_and_fix(valXml)
    /\ UNCHANGED <<valXml, valRootOnly, valResult, diffVars, dispVars, hostVars>>

(***************************************************************************)
(* tools/diagram_tools.py: display_xml_impl and _send_xml_to_browser,      *)
(* called with output_path left at None.                                   *)
(***************************************************************************)
\* The text display_xml_impl hands on: a text that is no mxfile is taken
\* for the content of a root and wrapped.
DisplayText(x) ==
    IF ~StartsWith(x, "mxfile")
    THEN _wrap_for_browser(IF ~StartsWith(x, "root") THEN RootWrap(x) ELSE x)
    ELSE x

\* The validation step of _send_xml_to_browser: the text to send and the
\* message about it.
\* A validation step that puts the repaired text through the repair again.
CheckedTwice(x) ==
    IF validate(x, FALSE).valid THEN [xml |-> x, msgs |-> <<>>]
    ELSE IF validate_and_fix(x).fixed
         THEN [xml |-> RootWrap(validate_and_fix(x).xml),
               msgs |-> <<"fixed", "fixed">>]
         ELSE [xml |-> x, msgs |-> <<"warning">>]

Checked(x) ==
    IF validate(x, FALSE).valid THEN [xml |-> x, msgs |-> <<>>]
    ELSE IF validate_and_fix(x).fixed
         THEN [xml |-> validate_and_fix(x).xml, msgs |-> <<"fixed">>]
         ELSE [xml |-> x, msgs |-> <<"warning">>]

\* The call up to its display request.  web_client.send posts the request
\* when the web service answers (up), and reports an error otherwise.
display_xml_impl(x, send_to_browser, up) ==
    /\ dispPc # "sending"
    /\ dispXml' = x
    /\ LET c == Checked(DisplayText(x)) IN
       IF send_to_browser /\ up
       THEN /\ dispPc' = "sending"
            /\ dispSent' = c.xml
            /\ dispMsgs' = c.msgs
       ELSE /\ dispPc' = "done"
            /\ dispSent' = NoText
            /\ dispMsgs' =
                  IF send_to_browser THEN Append(c.msgs, "send error")
                  ELSE IF c.msgs = <<>> THEN <<"generated">> ELSE c.msgs
    /\ UNCHANGED <<diffVars, valVars, hostVars>>

\* The answer to the display request, and the return of the call.
DisplayAnswered ==
    /\ dispPc = "sending"
    /\ dispPc' = "done"
    /\ \E answer \in {"displayed", "send error"} :
          dispMsgs' = Append(dispMsgs, answer)
    /\ UNCHANGED <<dispXml, dispSent, diffVars, valVars, hostVars>>

\* Texts an agent passes to display_xml.
V2 == MxCell("2", TRUE, "1", TRUE, FALSE)
V3 == MxCell("3", TRUE, "1", TRUE, FALSE)
Bare2 == MxCell("2", TRUE, NoId, FALSE, TRUE)
CellLists ==
    {<<>>, <<Cell0, Cell1>>, <<Cell0, Cell1, V2>>, <<Cell0, Cell1, V2, V2>>,
     <<Cell0, V2>>, <<Cell1, V2>>, <<V2>>, <<V2, V3>>, <<V2, V2>>, <<Bare2>>}
DisplayInputs ==
    {Text("mxfile", wf, d, m, cells) :
        wf \in BOOLEAN, d \in BOOLEAN, m \in BOOLEAN, cells \in CellLists}
    \cup {Text(s, wf, FALSE, FALSE, cells) :
        s \in {"root", "other"}, wf \in BOOLEAN, cells \in CellLists}

(***************************************************************************)
(* The change tracker.  The Surface computes the ChangeSet between the     *)
(* Baseline and the Document (specification, 4.3);                         *)
(* get_diagram_changes_impl (diff_tools.py) asks for it and turns it into  *)
(* the report it returns.                                                  *)
(***************************************************************************)
\* The Cell attributes a ChangeSet compares.
TrackedFields == <<"value", "style", "geometry">>

\* The Cells of d keyed by id: the first Cell of each id, in order.
Firsts(d) ==
    LET idx == SelectSeq([i \in 1..Len(d) |-> i],
                         LAMBDA i : \A j \in 1..(i - 1) : d[j].id # d[i].id)
    IN [k \in 1..Len(idx) |-> d[idx[k]]]

CellOf(d, id) == Head(ContentOf(d, id))

\* An entry of `added` or `deleted`.
Item(c) == [id |-> c.id, type |-> c.kind, value |-> c.value]

\* The entries for the ids of a that b does not have.
OnlyIn(a, b) ==
    LET only == SelectSeq(Firsts(a), LAMBDA c : ~HasId(b, c.id))
    IN [k \in 1..Len(only) |-> Item(only[k])]

\* One entry of `modified` per tracked field that differs.
FieldChanges(before, after) ==
    LET fs == SelectSeq(TrackedFields, LAMBDA f : before[f] # after[f])
    IN [k \in 1..Len(fs) |->
           [id |-> before.id, field |-> fs[k], before |-> before[fs[k]],
            after |-> after[fs[k]]]]

RECURSIVE ModifiedOf(_, _)
ModifiedOf(common, document) ==
    IF common = <<>> THEN <<>>
    ELSE FieldChanges(Head(common), CellOf(document, Head(common).id))
         \o ModifiedOf(Tail(common), document)

computeChanges(document, base) ==
    LET added == OnlyIn(document, base)
        modified == ModifiedOf(SelectSeq(Firsts(base),
                                         LAMBDA c : HasId(document, c.id)),
                               document)
        deleted == OnlyIn(base, document)
    IN [has_changes |-> Len(added) + Len(modified) + Len(deleted) > 0,
        operations |-> [added |-> added, modified |-> modified,
                        deleted |-> deleted],
        details |-> TRUE]

\* The answers of web_client.get_diagram_changes(): an error, or the
\* ChangeSet of the Surface.
GetChangesResponses ==
    {[error |-> TRUE],
     [error |-> FALSE, changes |-> computeChanges(doc, baseline)]}

\* What get_diagram_changes_impl returns: the error message, the
\* "no changes" message, or the lists of the ChangeSet.
Report(kind, added, modified, deleted, details) ==
    [kind |-> kind, added |-> added, modified |-> modified,
     deleted |-> deleted, details |-> details]

NoReport == Report("nothing", <<>>, <<>>, <<>>, FALSE)
ErrorReport == Report("error", <<>>, <<>>, <<>>, FALSE)
NoChangesReport == Report("no changes", <<>>, <<>>, <<>>, FALSE)

\* A report that leaves out the deleted elements.
ReportWithoutDeleted(response, include_details) ==
    IF response.error THEN ErrorReport
    ELSE IF ~response.changes.has_changes THEN NoChangesReport
    ELSE Report("summary", response.changes.operations.added,
                response.changes.operations.modified, <<>>,
                include_details /\ response.changes.details)

ReportOf(response, include_details) ==
    IF response.error THEN ErrorReport
    ELSE IF ~response.changes.has_changes THEN NoChangesReport
    ELSE Report("summary", response.changes.operations.added,
                response.changes.operations.modified,
                response.changes.operations.deleted,
                include_details /\ response.changes.details)

\* A call that also makes the Document it saw the Baseline.
GetChangesAndSync(include_details) ==
    /\ gets < MaxGets
    /\ gets' = gets + 1
    /\ \E response \in GetChangesResponses :
          /\ changes' = ReportOf(response, include_details)
          /\ seen' = IF response.error THEN seen ELSE <<doc, baseline>>
    /\ baseline' = doc
    /\ UNCHANGED <<clock, hashOf, pc, callOps, callKeep, rid, polls, lastResp,
                   outcome, surf, doc, syncPc, syncXml, humanEdits,
                   dispVars, valVars, hostVars>>

get_diagram_changes_impl(include_details) ==
    /\ gets < MaxGets
    /\ gets' = gets + 1
    /\ \E response \in GetChangesResponses :
          /\ changes' = ReportOf(response, include_details)
          /\ seen' = IF response.error THEN seen ELSE <<doc, baseline>>
    /\ UNCHANGED <<clock, hashOf, pc, callOps, callKeep, rid, polls, lastResp,
                   outcome, surf, doc, baseline, syncPc, syncXml, humanEdits,
                   dispVars, valVars, hostVars>>

\* The human changes the value, the style (to "s1") or the geometry (to
\* "g1") of a Cell, or several of them, in one edit.
HumanEdit(i) ==
    /\ humanEdits < MaxHumanEdits
    /\ i \in 1..Len(doc)
    /\ Editable(doc[i])
    /\ \E value \in {doc[i].value, HumanValue},
          style \in {doc[i].style, "s1"},
          geometry \in {doc[i].geometry, "g1"} :
          /\ <<value, style, geometry>>
                # <<doc[i].value, doc[i].style, doc[i].geometry>>
          /\ doc' = [doc EXCEPT ![i].value = value, ![i].style = style,
                                ![i].geometry = geometry]
    /\ humanEdits' = humanEdits + 1
    /\ UNCHANGED <<clock, hashOf, pc, callOps, callKeep, rid, polls, lastResp,
                   outcome, surf, baseline, syncPc, syncXml, dispVars,
                   trackVars, valVars, hostVars>>

(***************************************************************************)
(* The editing session: one agent that issues its calls one after another  *)
(* (specification 5), the Surface and the human.                           *)
(***************************************************************************)
AgentBusy == syncPc = "fetched" \/ \E c \in Calls : pc[c] = "polling"

SessionCall == 1

StartNext(c) ==
    /\ ~AgentBusy
    /\ c = SessionCall
    /\ \E s \in Submissions : Start(c, s[1], s[2])

SyncStart == ~AgentBusy /\ SyncFetch

\* In the session the Surface has gone through the batch when the call
\* asks for the result; calls that wait on a pending or a discarded batch
\* are the subject of the concurrent calls below.
PollNext(c) == surf[rid[c]].state = "done" /\ Poll(c)

DisplayIdle ==
    /\ dispPc = "idle"
    /\ dispXml = NoText
    /\ dispSent = NoText
    /\ dispMsgs = <<>>

ValidatorIdle ==
    /\ valPc = "idle"
    /\ valXml = NoText
    /\ valRootOnly = FALSE
    /\ valResult = NoResult
    /\ fixResult = NoFix

HostIdle ==
    /\ active = "t1"
    /\ otherBaseline = EmptyDocument
    /\ syncTab = "t1"
    /\ webPc = "idle"
    /\ webWaits = 0
    /\ webResult = "none"
    /\ procs = <<>>
    /\ _web_process = 0
    /\ foreign = "none"
    /\ auto_start_web = TRUE
    /\ id_counter = 2
    /\ genDocs = <<>>

InitDiff ==
    /\ clock = 0
    /\ \E nh \in [NodeValues -> Hashes] :
          \E eh \in [EdgeKeys(nh) -> Hashes] : hashOf = nh @@ eh
    /\ pc = [c \in Calls |-> "idle"]
    /\ callOps = [c \in Calls |-> <<>>]
    /\ callKeep = [c \in Calls |-> FALSE]
    /\ rid = [c \in Calls |-> 0]
    /\ polls = [c \in Calls |-> 0]
    /\ lastResp = [c \in Calls |-> "none"]
    /\ outcome = [c \in Calls |-> NoOutcome]
    /\ surf = [r \in RIds |-> NoBatch]
    /\ doc \in InitialDocuments
    /\ baseline = doc
    /\ gets = 0
    /\ changes = NoReport
    /\ seen = <<doc, baseline>>
    /\ syncPc = "idle"
    /\ syncXml = <<>>
    /\ humanEdits = 0

Init == InitDiff /\ DisplayIdle /\ ValidatorIdle /\ HostIdle

Next ==
    \/ Tick
    \/ \E c \in Calls : StartNext(c)
    \/ \E c \in Calls : PollNext(c)
    \/ \E r \in RIds : SurfaceStep(r)
    \/ \E i \in 1..Len(doc) : HumanSetValue(i)
    \/ \E i \in 1..Len(doc) : HumanDelete(i)
    \/ SyncStart
    \/ SyncStore

Spec == Init /\ [][Next]_vars

(***************************************************************************)
(* Concurrent tool calls: apply_diagram_changes is a coroutine, and two    *)
(* calls of one process may be in flight together.  The event loop resumes *)
(* a call that waits in its sleep or its request, and time passes.         *)
(***************************************************************************)
RaceSubmissions ==
    {<<ModifyN1, TRUE>>, <<ScenarioB, TRUE>>, <<DeleteE1, FALSE>>}

StartAny(c) == \E s \in RaceSubmissions : Start(c, s[1], s[2])

InitRace ==
    /\ InitDiff
    /\ doc = SampleDocument
    /\ \A k \in DOMAIN hashOf : hashOf[k] = 0  \* no id is generated here
    /\ DisplayIdle
    /\ ValidatorIdle
    /\ HostIdle

NextRace ==
    \/ Tick
    \/ \E c \in Calls : StartAny(c)
    \/ \E c \in Calls : Poll(c)
    \/ \E r \in RIds : SurfaceStep(r)
    \/ \E r \in RIds : SurfaceDiscard(r)

SpecRace ==
    /\ InitRace
    /\ [][NextRace]_vars
    /\ WF_vars(Tick)
    /\ \A c \in Calls : WF_vars(Poll(c))

(***************************************************************************)
(* The session with its change tracker: the agent asks for the changes     *)
(* between its other calls, and the human edits at any moment.             *)
(***************************************************************************)
TrackSubmissions ==
    {<<ModifyN1, TRUE>>, <<DeleteN1, FALSE>>, <<AddExisting, TRUE>>,
     <<<<AddNode("n3", "N")>>, FALSE>>,
     <<<<DeleteNode("n1"), AddNode("n1", "D")>>, FALSE>>}

StartTrack(c) ==
    /\ ~AgentBusy
    /\ c = SessionCall
    /\ \E s \in TrackSubmissions : Start(c, s[1], s[2])

GetChanges ==
    ~AgentBusy /\ \E d \in BOOLEAN : get_diagram_changes_impl(d)

InitTrack ==
    /\ InitDiff
    /\ doc = SampleDocument
    /\ \A k \in DOMAIN hashOf : hashOf[k] = 0  \* no id is generated here
    /\ DisplayIdle
    /\ ValidatorIdle
    /\ HostIdle

NextTrack ==
    \/ Tick
    \/ \E c \in Calls : StartTrack(c)
    \/ \E c \in Calls : PollNext(c)
    \/ \E r \in RIds : SurfaceStep(r)
    \/ \E i \in 1..Len(doc) : HumanEdit(i)
    \/ \E i \in 1..Len(doc) : HumanDelete(i)
    \/ SyncStart
    \/ SyncStore
    \/ GetChanges

SpecTrack == InitTrack /\ [][NextTrack]_vars

(***************************************************************************)
(* The session with two tabs: the agent syncs, the human edits the tab in  *)
(* front and switches between the tabs at any moment.                      *)
(***************************************************************************)
NextTabs ==
    \/ SyncStart
    \/ SyncStore
    \/ HumanSwitch
    \/ \E i \in 1..Len(doc) : active = "t1" /\ HumanEdit(i)
    \/ \E i \in 1..Len(doc) : active = "t1" /\ HumanDelete(i)

SpecTabs == InitTrack /\ [][NextTabs]_vars

(***************************************************************************)
(* The web service (web_client.py).  The service answers when a child the  *)
(* client has spawned serves it, or when somebody else runs it; the port   *)
(* is taken by whoever serves and by any other application that holds it.  *)
(* start_web_server is followed through its waits: every sleep lets the    *)
(* children and the other applications move.                               *)
(***************************************************************************)
\* Children one run spawns at most.
MaxSpawns == 2

\* for i in range(10)
PortWaitBudget == 10

\* min(config.web_startup_timeout, 20), the configured value being 30
StartupBudget == 20

is_running ==
    foreign = "service" \/ \E p \in 1..Len(procs) : procs[p] = "serving"

\* A port that is never found occupied.
PortNeverInUse == FALSE

is_port_in_use ==
    foreign # "none" \/ \E p \in 1..Len(procs) : procs[p] = "serving"

WebReturn(v) == webPc' = "idle" /\ webWaits' = 0 /\ webResult' = v

start_web_server ==
    /\ webPc = "idle"
    /\ Len(procs) < MaxSpawns
    /\ IF is_running
         THEN WebReturn("True") /\ UNCHANGED <<procs, _web_process>>
         ELSE IF is_port_in_use
         THEN /\ webPc' = "waitPort" /\ webWaits' = 0 /\ webResult' = "none"
              /\ UNCHANGED <<procs, _web_process>>
         ELSE IF ~auto_start_web
         THEN WebReturn("False") /\ UNCHANGED <<procs, _web_process>>
         ELSE \* package.json or npm is missing, or Popen raises
              \/ WebReturn("False") /\ UNCHANGED <<procs, _web_process>>
              \/ /\ procs' = Append(procs, "starting")
                 /\ _web_process' = Len(procs) + 1
                 /\ webPc' = "waitStart" /\ webWaits' = 0
                 /\ webResult' = "none"
    /\ UNCHANGED <<diffVars, dispVars, valVars, active, otherBaseline, syncTab,
                   foreign, auto_start_web, id_counter, genDocs>>

\* One turn of the loop that waits for whoever holds the port.
WaitForPort ==
    /\ webPc = "waitPort"
    /\ IF is_running THEN WebReturn("True")
       ELSE IF webWaits + 1 = PortWaitBudget THEN WebReturn("False")
       ELSE webWaits' = webWaits + 1 /\ UNCHANGED <<webPc, webResult>>
    /\ UNCHANGED <<diffVars, dispVars, valVars, active, otherBaseline, syncTab,
                   procs, _web_process, foreign, auto_start_web, id_counter,
                   genDocs>>

\* One turn of the loop that waits for the child to serve.
WaitForStartup ==
    /\ webPc = "waitStart"
    /\ IF is_running THEN WebReturn("True")
       ELSE IF webWaits + 1 = StartupBudget THEN WebReturn("False")
       ELSE webWaits' = webWaits + 1 /\ UNCHANGED <<webPc, webResult>>
    /\ UNCHANGED <<diffVars, dispVars, valVars, active, otherBaseline, syncTab,
                   procs, _web_process, foreign, auto_start_web, id_counter,
                   genDocs>>

stop_web_server ==
    /\ webPc = "idle"
    /\ IF _web_process # 0
         THEN /\ procs' = [procs EXCEPT ![_web_process] = "stopped"]
              /\ _web_process' = 0
         ELSE UNCHANGED <<procs, _web_process>>
    /\ UNCHANGED <<diffVars, dispVars, valVars, active, otherBaseline, syncTab,
                   webPc, webWaits, webResult, foreign, auto_start_web,
                   id_counter, genDocs>>

\* What happens outside the client: a child comes to serve on the free
\* port, a child ends by itself, the other holder of the port turns out to
\* be the service.
WebEnvironment ==
    /\ \/ \E p \in 1..Len(procs) :
             /\ procs[p] = "starting" /\ ~is_port_in_use
             /\ procs' = [procs EXCEPT ![p] = "serving"]
             /\ UNCHANGED foreign
       \/ \E p \in 1..Len(procs) :
             /\ procs[p] \in {"starting", "serving"}
             /\ procs' = [procs EXCEPT ![p] = "exited"]
             /\ UNCHANGED foreign
       \/ foreign = "other" /\ foreign' = "service" /\ UNCHANGED procs
    /\ UNCHANGED <<diffVars, dispVars, valVars, active, otherBaseline, syncTab,
                   webPc, webWaits, webResult, _web_process, auto_start_web,
                   id_counter, genDocs>>

InitWeb ==
    /\ InitDiff
    /\ doc = SampleDocument
    /\ \A k \in DOMAIN hashOf : hashOf[k] = 0
    /\ DisplayIdle
    /\ ValidatorIdle
    /\ active = "t1"
    /\ otherBaseline = EmptyDocument
    /\ syncTab = "t1"
    /\ webPc = "idle"
    /\ webWaits = 0
    /\ webResult = "none"
    /\ procs = <<>>
    /\ _web_process = 0
    /\ foreign \in {"none", "other", "service"}
    /\ auto_start_web \in BOOLEAN
    /\ id_counter = 2
    /\ genDocs = <<>>

NextWeb ==
    \/ start_web_server
    \/ WaitForPort
    \/ WaitForStartup
    \/ stop_web_server
    \/ WebEnvironment

SpecWeb == InitWeb /\ [][NextWeb]_vars

(***************************************************************************)
(* DiagramGenerator.create_diagram (diagram_generator.py): the elements of *)
(* a diagram type are fixed texts whose ids come from _next_id and whose   *)
(* parent, source and target are either literal or computed from the       *)
(* counter as it stands when the element's text is formatted.              *)
(***************************************************************************)
\* Calls of create_diagram in one run.
MaxCreates == 3

\* An element: a vertex or an edge; `up`, `source` and `target` say how far
\* below the counter the id they name lies (0: parent "1", no end).
Elements(diagram_type) ==
    LET v == [vertex |-> TRUE, up |-> 0, source |-> 0, target |-> 0]
        e == [vertex |-> FALSE, up |-> 0, source |-> 2, target |-> 1]
    IN  CASE diagram_type = "flowchart" -> <<v, v, v>>
          [] diagram_type = "aws" -> <<v, v, v, v>>
          [] diagram_type \in {"gcp", "azure"} -> <<v, v, v>>
          [] diagram_type = "mindmap" -> <<v, v, v, v, v>>
          [] diagram_type = "sequence" -> <<v, v, v>>
          [] diagram_type = "er" ->
                <<v, [v EXCEPT !.up = 1], [v EXCEPT !.up = 2],
                  [v EXCEPT !.up = 3]>>
          [] OTHER -> <<v, v, e>>

\* A counter that is not advanced.
NextIdWithoutIncrement(counter) == counter

\* self.id_counter += 1; return str(self.id_counter)
_next_id(counter) == counter + 1

\* The mxCell of an element whose id _next_id has just returned as n.
ElementCell(t, n) ==
    MxCell(ToString(n), t.vertex,
           IF t.up = 0 THEN "1" ELSE ToString(n - t.up), TRUE, FALSE)
    @@ [source |-> IF t.source = 0 THEN NoId ELSE ToString(n - t.source),
        target |-> IF t.target = 0 THEN NoId ELSE ToString(n - t.target)]

\* The elements from the k-th on, formatted in order from the counter.
RECURSIVE Build(_, _, _)
Build(ts, k, counter) ==
    IF k > Len(ts) THEN [cells |-> <<>>, counter |-> counter]
    ELSE LET n == _next_id(counter)
             rest == Build(ts, k + 1, n)
         IN [cells |-> <<ElementCell(ts[k], n)>> \o rest.cells,
             counter |-> rest.counter]

_build_root_xml(cells) == RootWrap(Text("other", TRUE, FALSE, FALSE, cells))

\* _reset_id_counter sets the counter to 2 before the elements are made.
create_diagram(diagram_type) ==
    /\ Len(genDocs) < MaxCreates
    /\ LET built == Build(Elements(diagram_type), 1, 2)
       IN /\ id_counter' = built.counter
          /\ genDocs' = Append(genDocs,
                               _wrap_for_browser(_build_root_xml(built.cells)))
    /\ UNCHANGED <<diffVars, dispVars, valVars, active, otherBaseline, syncTab,
                   webPc, webWaits, webResult, procs, _web_process, foreign,
                   auto_start_web>>

SpecCreate ==
    /\ InitTrack
    /\ [][\E t \in {"flowchart", "aws", "gcp", "azure", "mindmap",
                    "sequence", "er", "custom"} : create_diagram(t)]_vars

(***************************************************************************)
(* Properties of the apply path.                                           *)
(***************************************************************************)
\* The step in which the Surface evaluates the next operation of batch r,
\* that operation, and the outcome the step records for it.
Evaluates(r) ==
    /\ surf[r].state = "pending"
    /\ surf'[r].ops = surf[r].ops
    /\ Len(surf'[r].outcomes) = Len(surf[r].outcomes) + 1
NextOp(r) == surf[r].ops[Len(surf[r].outcomes) + 1]
NewOutcome(r) == surf'[r].outcomes[Len(surf'[r].outcomes)]

\* Batch r is what call c submitted, with the arguments c was called with.
FromCall(r, c) == surf[r].by = c /\ rid[c] = r /\ callOps[c] = surf[r].ops

\* C1: when a call asks to preserve user changes, a Modify or Delete whose
\* target exists with a content other than its content at the Baseline is
\* not applied: its outcome is StaleIntent and the Document, with the
\* human's value in it, stays as it is.
StaleIntentKeepsHumanEdit ==
    [][\A r \in RIds : \A c \in Calls :
          (/\ Evaluates(r)
           /\ FromCall(r, c)
           /\ callKeep[c]
           /\ NextOp(r).op \in TargetKinds
           /\ HasId(doc, NextOp(r).id)
           /\ ContentOf(doc, NextOp(r).id) # ContentOf(baseline, NextOp(r).id))
          => (/\ NewOutcome(r).reason = "StaleIntent"
              /\ NewOutcome(r).id = NextOp(r).id
              /\ doc' = doc)]_vars

\* Baseline has n1 = "A", the human made it "B", the agent's Modify of n1
\* came back StaleIntent and n1 is still "B".
StaleIntentReported ==
    \E r \in RIds :
        /\ surf[r].state = "done"
        /\ surf[r].ops = ModifyN1
        /\ surf[r].keep
        /\ surf[r].outcomes[1].reason = "StaleIntent"
        /\ ContentOf(baseline, "n1") = <<Cell("n1", "node", "A", "", "")>>
        /\ ContentOf(doc, "n1") = <<Cell("n1", "node", HumanValue, "", "")>>

\* The operation names an id that no Cell of the Document has.
NamesMissingId(op) ==
    \/ /\ op.op \in {"modify_node", "modify_edge", "delete_node", "delete_edge"}
       /\ \A i \in 1..Len(doc) : doc[i].id # op.id
    \/ /\ op.op = "add_edge"
       /\ \/ \A i \in 1..Len(doc) : doc[i].id # op.source
          \/ \A i \in 1..Len(doc) : doc[i].id # op.target

\* Nothing else stands against the operation: no stale target under
\* preserveUserChanges, no explicit id that is taken.
NoOtherConflictSource(r, op) ==
    /\ op.op \in TargetKinds =>
          (~surf[r].keep \/ ContentOf(doc, op.id) = ContentOf(baseline, op.id))
    /\ op.op \in AddKinds => (op.id = NoId \/ ~HasId(doc, op.id))

CountOf(outs, reason) == Len(SelectSeq(outs, LAMBDA o : o.reason = reason))

\* C2: every operation of a batch gets an outcome, one at a time and never
\* taken back: an operation naming a missing id is a ReferencedIdNotFound
\* conflict that leaves the Document alone, an operation with no conflict
\* source is applied, and the call reports applied = M - (conflicts) for
\* its M operations (Scenario B: applied 0, one conflict).
MissingRefsConflictRestApplied ==
    /\ [](\A r \in RIds :
            /\ Len(surf[r].outcomes) <= Len(surf[r].ops)
            /\ surf[r].state = "done" =>
                  Len(surf[r].outcomes) = Len(surf[r].ops))
    /\ [](\A c \in Calls :
            outcome[c].kind = "Completed" =>
               /\ outcome[c].applied = Len(callOps[c]) - outcome[c].conflicts
               /\ FromCall(rid[c], c) =>
                     /\ outcome[c].applied =
                           CountOf(surf[rid[c]].outcomes, "applied")
                     /\ \A k \in 1..Len(ApplyResultOf(surf[rid[c]]).conflicts) :
                           LET x == ApplyResultOf(surf[rid[c]]).conflicts[k] IN
                           /\ x.reason = surf[rid[c]].outcomes[x.opIndex].reason
                           /\ x.reason # "applied"
                           /\ x.id = OutcomeId(callOps[c][x.opIndex])
               /\ callOps[c] = ScenarioB =>
                     outcome[c].applied = 0 /\ outcome[c].conflicts = 1)
    /\ [][\A r \in RIds :
            Evaluates(r) =>
               /\ SubSeq(surf'[r].outcomes, 1, Len(surf[r].outcomes))
                     = surf[r].outcomes
               /\ NamesMissingId(NextOp(r)) <=>
                     NewOutcome(r).reason = "ReferencedIdNotFound"
               /\ NamesMissingId(NextOp(r)) => doc' = doc
               /\ (~NamesMissingId(NextOp(r))
                     /\ NoOtherConflictSource(r, NextOp(r)))
                  => NewOutcome(r).reason = "applied"]_vars

\* A call got the result of the mixed batch: 4 operations, 2 of them name
\* the missing id, the other 2 applied.
MixedBatchReported ==
    \E c \in Calls :
        /\ outcome[c].kind = "Completed"
        /\ callOps[c] = MixedBatch
        /\ FromCall(rid[c], c)
        /\ outcome[c].applied = 2
        /\ outcome[c].conflicts = 2
        /\ CountOf(surf[rid[c]].outcomes, "ReferencedIdNotFound") = 2
        /\ HasId(doc, "n3") /\ ~HasId(doc, "n1")

\* The operation is an AddNode that leaves the id to the generator.
AddsWithoutId(op) == op.op = "add_node" /\ op.id = NoId

\* C5: the AddNodes of a batch that give no id get generated ids that
\* differ from each other (also across a delete in between) and are
\* neither "0" nor "1".
GeneratedIdsDistinct ==
    \A c \in Calls :
        \A i, j \in 1..Len(callOps[c]) :
            (/\ i < j
             /\ AddsWithoutId(callOps[c][i])
             /\ AddsWithoutId(callOps[c][j]))
            => /\ operation_to_xml_patch(callOps[c][i]).id
                    # operation_to_xml_patch(callOps[c][j]).id
               /\ operation_to_xml_patch(callOps[c][i]).id \notin {"0", "1"}
               /\ operation_to_xml_patch(callOps[c][j]).id \notin {"0", "1"}

\* C6: the reserved cells "0" and "1" are in every Document.
ReservedCellsExist == HasId(doc, "0") /\ HasId(doc, "1")

\* C7: the Cell ids of the Document are pairwise distinct.
CellIdsDistinct == IdsUnique(doc)

\* The Cells of Scenario A, and the Document after n of its operations
\* when the batch runs on the empty Document.
StartNode == Cell(IdStart, "node", "Start", "", "")
EndNode == Cell(IdEnd, "node", "End", "", "")
ScenarioAEdge ==
    Cell(GenEdgeId(hashOf[IdStart \o IdEnd]), "edge", "", IdStart, IdEnd)
ScenarioADocument(n) ==
    SubSeq(<<RootCell, LayerCell, StartNode, EndNode, ScenarioAEdge>>,
           1, 2 + n)

\* C8: the operations of a batch run in order, each on the Document the
\* earlier ones left.  Scenario A on the empty Document adds its Cells one
\* by one up to 5 Cells and comes back with applied = 3 and no conflict;
\* with the AddEdge first, while its endpoints are not there, that
\* operation is a ReferencedIdNotFound conflict.
BatchRunsInOrder ==
    /\ [](\A r \in RIds :
            (surf[r].ops = ScenarioA /\ surf[r].state = "done") =>
                ApplyResultOf(surf[r]) = [applied |-> 3, conflicts |-> <<>>])
    /\ [](\A c \in Calls :
            (callOps[c] = ScenarioA /\ outcome[c].kind = "Completed") =>
                outcome[c].applied = 3 /\ outcome[c].conflicts = 0)
    /\ [][\A r \in RIds :
            Evaluates(r) =>
               /\ (/\ surf[r].ops = ScenarioA
                   /\ doc = ScenarioADocument(Len(surf[r].outcomes)))
                  => /\ doc' = ScenarioADocument(Len(surf'[r].outcomes))
                     /\ Len(doc') = Len(doc) + 1
               /\ (/\ surf[r].ops = EdgeBeforeNodes
                   /\ surf[r].outcomes = <<>>
                   /\ (~HasId(doc, IdStart) \/ ~HasId(doc, IdEnd)))
                  => /\ NewOutcome(r).reason = "ReferencedIdNotFound"
                     /\ doc' = doc]_vars

\* Scenario A ran on the empty Document: 5 Cells, applied = 3.
ScenarioADone ==
    \E r \in RIds :
        /\ surf[r].ops = ScenarioA
        /\ surf[r].state = "done"
        /\ doc = ScenarioADocument(3)
        /\ Len(doc) = 5
        /\ ApplyResultOf(surf[r]).applied = 3

(***************************************************************************)
(* Properties of the calls: request ids and the poll loop.                 *)
(***************************************************************************)
\* C3: two calls that are both waiting for a result hold different
\* requestIds.
OutstandingRequestIdsDistinct ==
    \A c, d \in Calls :
        (c # d /\ pc[c] = "polling" /\ pc[d] = "polling") => rid[c] # rid[d]

TimedOutCallCanPollAgain ==
    \A c \in Calls :
        (/\ outcome[c].kind = "TimedOut"
         /\ FromCall(rid[c], c)
         /\ surf[rid[c]].state = "done")
        => ENABLED Poll(c)

(***************************************************************************)
(* The display path on its own.                                            *)
(***************************************************************************)
InitDisplay ==
    /\ InitDiff
    /\ doc = SampleDocument
    /\ \A k \in DOMAIN hashOf : hashOf[k] = 0
    /\ DisplayIdle
    /\ ValidatorIdle
    /\ HostIdle

NextDisplay ==
    \/ \E x \in DisplayInputs : \E send, up \in BOOLEAN :
          display_xml_impl(x, send, up)
    \/ DisplayAnswered

SpecDisplay == InitDisplay /\ [][NextDisplay]_vars

(***************************************************************************)
(* validate and validate_and_fix as functions of their arguments: a run    *)
(* takes a text and a mode, validates the text and then has it fixed.      *)
(***************************************************************************)
InitValidate ==
    /\ InitDiff
    /\ doc = SampleDocument
    /\ \A k \in DOMAIN hashOf : hashOf[k] = 0
    /\ DisplayIdle
    /\ valPc = "input"
    /\ valXml \in DisplayInputs
    /\ valRootOnly \in BOOLEAN
    /\ valResult = NoResult
    /\ fixResult = NoFix
    /\ HostIdle

NextValidate == ValidateCall \/ FixCall

SpecValidate == InitValidate /\ [][NextValidate]_vars

\* C4: the text of a display request is a text that validate finds valid.
SentTextsAreValid ==
    dispSent # NoText => validate(dispSent, FALSE).valid

(***************************************************************************)
(* Properties of the request state machine and of the change tracker.      *)
(***************************************************************************)
\* Call d makes a poll in this step.
Polls(d) == polls'[d] = polls[d] + 1

\* C11: once a poll of a requestId has returned Completed to a call, no
\* later poll of that id is answered "pending" and none ends in TimedOut.
CompletedIsTerminal ==
    [][\A c, d \in Calls :
          (/\ pc[c] = "done"
           /\ outcome[c].kind = "Completed"
           /\ rid[d] = rid[c]
           /\ Polls(d))
          => /\ lastResp'[d] # "pending"
             /\ outcome'[d].kind # "TimedOut"]_vars

\* A call of get_diagram_changes returns in this step.
Gets == gets' = gets + 1

\* The ChangeSet of a report: its lists, and whether there are changes.
ChangeSetOf(r) ==
    [has_changes |-> r.kind = "summary", added |-> r.added,
     modified |-> r.modified, deleted |-> r.deleted]

Answered(r) == r.kind \in {"no changes", "summary"}

SyncReturns == syncPc = "fetched" /\ syncPc' = "done"

\* C13: when a sync has returned, the ChangeSet a getChanges call gets is
\* empty (hasChanges=false), at whatever moment of the sync the human made
\* an edit.
NoChangesRightAfterSync ==
    [][SyncReturns => ~computeChanges(doc', baseline').has_changes]_vars

\* C14: the Baseline changes only in the step in which a sync stores its
\* snapshot: submit, poll, getChanges, the Surface's application of a batch
\* and human edits leave it unchanged.
BaselineChangesOnlyInSync ==
    [][baseline' # baseline => SyncReturns]_vars

\* A batch was submitted, applied and polled, the human has edited and
\* getChanges was called, and the Baseline is the one of the session start.
BaselineKeptWithoutSync ==
    /\ syncPc = "idle"
    /\ \E c \in Calls : outcome[c].kind = "Completed" /\ outcome[c].applied > 0
    /\ humanEdits > 0
    /\ gets > 0
    /\ doc # baseline
    /\ baseline = SampleDocument

\* The ids of a Document, the ids of a list of a report, and the entries
\* a report has for a field of an id.
IdsIn(d) == {d[i].id : i \in 1..Len(d)}
IdsOf(items) == {items[k].id : k \in 1..Len(items)}
EntriesOf(r, id, f) ==
    {k \in 1..Len(r.modified) :
        r.modified[k].id = id /\ r.modified[k].field = f}

\* C15: in the ChangeSet a getChanges call returns for a Document and a
\* Baseline, an id is in added exactly when only the Document has it, in
\* deleted exactly when only the Baseline has it, and an id of both has one
\* modified entry, with before and after, for each of value, style and
\* geometry that differs and no other entry; hasChanges is true exactly
\* when one of the three lists is non-empty.
ChangesClassifiedById ==
    Answered(changes) =>
        LET document == seen[1]
            base == seen[2]
        IN /\ \A id \in IdsIn(document) \cup IdsIn(base) :
                /\ id \in IdsOf(changes.added)
                     <=> (HasId(document, id) /\ ~HasId(base, id))
                /\ id \in IdsOf(changes.deleted)
                     <=> (HasId(base, id) /\ ~HasId(document, id))
                /\ \A k \in 1..Len(TrackedFields) :
                      LET f == TrackedFields[k] IN
                      IF /\ HasId(document, id)
                         /\ HasId(base, id)
                         /\ CellOf(base, id)[f] # CellOf(document, id)[f]
                      THEN \E e \in EntriesOf(changes, id, f) :
                              /\ EntriesOf(changes, id, f) = {e}
                              /\ changes.modified[e].before
                                   = CellOf(base, id)[f]
                              /\ changes.modified[e].after
                                   = CellOf(document, id)[f]
                      ELSE EntriesOf(changes, id, f) = {}
           /\ IdsOf(changes.added) \cup IdsOf(changes.modified)
                \cup IdsOf(changes.deleted)
                \subseteq IdsIn(document) \cup IdsIn(base)
           /\ (changes.kind = "summary")
                <=> (Len(changes.added) + Len(changes.modified)
                       + Len(changes.deleted) > 0)

\* Scenario C: Baseline n1.value = "A", Document n1.value = "B".
ScenarioCReported ==
    /\ CellOf(seen[2], "n1").value = "A"
    /\ changes.kind = "summary"
    /\ changes.added = <<>>
    /\ changes.deleted = <<>>
    /\ changes.modified
         = <<[id |-> "n1", field |-> "value", before |-> "A", after |-> "B"]>>

(***************************************************************************)
(* Properties of validate and validate_and_fix.                            *)
(***************************************************************************)
\* The text has an mxCell with the id; the result has an Error finding at
\* the location; validate has returned.
HasCell(x, id) == \E i \in 1..Len(IterCells(x)) : IterCells(x)[i].id = id
ErrorAt(result, location) ==
    \E i \in 1..Len(result.findings) :
        /\ result.findings[i].level = "error"
        /\ result.findings[i].location = location
Validated == valPc \in {"validated", "fixed"}
\* The outermost element the mode of the run expects.
ModeTag == IF valRootOnly THEN "root" ELSE "mxfile"

\* C16: for a text that parses and has no mxCell "0" or no mxCell "1",
\* validate returns valid=false with an Error finding, in either mode, and
\* a missing mxCell "1" is reported at "mxCell_1" when the outermost
\* element is the one of the mode.
MissingReservedCellIsError ==
    (Validated /\ Parses(valXml)) =>
        /\ (~HasCell(valXml, "0") \/ ~HasCell(valXml, "1"))
              => ~valResult.valid /\ HasErrors(valResult.findings)
        /\ (~HasCell(valXml, "1") /\ RootTag(valXml) = ModeTag)
              => ErrorAt(valResult, "mxCell_1")

\* The mxCells of a text that carry the id, and the Error findings of a
\* result at the location.
Occurrences(x, id) ==
    Cardinality({i \in 1..Len(IterCells(x)) : IterCells(x)[i].id = id})
ErrorsAt(result, location) ==
    Cardinality({i \in 1..Len(result.findings) :
                    /\ result.findings[i].level = "error"
                    /\ result.findings[i].location = location})
TextIds(x) == {IterCells(x)[i].id : i \in 1..Len(IterCells(x))} \ {NoId}
Repeated(x) == {id \in TextIds(x) : Occurrences(x, id) > 1}

\* C17: validate returns valid=false when two mxCells of the text carry
\* the same id, and for a text that parses its Error findings at
\* mxCell_<id> are one for each occurrence of the id after the first.
DuplicateIdIsError ==
    Validated =>
        /\ Repeated(valXml) # {} => ~valResult.valid
        /\ Parses(valXml) =>
              \A id \in TextIds(valXml) :
                  ErrorsAt(valResult, "mxCell_" \o id)
                     = Occurrences(valXml, id) - 1

\* A file whose only defect is the second mxCell "2".
DuplicateIdReported ==
    /\ Validated
    /\ Parses(valXml)
    /\ valXml.cells = <<Cell0, Cell1, V2, V2>>
    /\ valResult = [valid |-> FALSE,
                    findings |-> <<Finding("error", "mxCell_2")>>]

\* The levels of the findings of a result.
Levels(result) ==
    {result.findings[i].level : i \in 1..Len(result.findings)}

\* C18: validate returns valid=true exactly when none of its findings is
\* an Error: a text whose findings are all Warnings is valid.
ValidIffNoError ==
    Validated => (valResult.valid <=> "error" \notin Levels(valResult))

\* A file with one vertex mxCell that has no parent, no geometry and an
\* unbalanced quote in its style: three Warnings, and valid.
WarningsOnlyIsValid ==
    /\ Validated
    /\ valXml.cells = <<Bare2>>
    /\ valResult.valid
    /\ valResult.findings
         = <<Finding("warning", "mxCell_2"), Finding("warning", "mxCell_2"),
             Finding("warning", "mxCell_2_style")>>

\* A text whose only defect is the missing wrapper: a bare list of
\* well-formed mxCells with distinct ids, none of them "0" or "1".
OnlyLacksWrapper(x) ==
    /\ x.starts = "other"
    /\ x.wellFormed
    /\ x.cells # <<>>
    /\ Repeated(x) = {}
    /\ ~HasCell(x, "0")
    /\ ~HasCell(x, "1")

\* C19: for a text whose only defect is the missing wrapper, validate,
\* called as validate_and_fix calls it on its fixed text, finds the text
\* that validate_and_fix returns valid.
RepairedTextIsValid ==
    (valPc = "fixed" /\ OnlyLacksWrapper(valXml))
        => validate(fixResult.xml, FALSE).valid

\* C20: validate_and_fix changes a text only by putting the wrapper around
\* a bare list of mxCells: a text that is not such a list comes back
\* unchanged, with wasRepaired = false.
OnlyBareListsAreRepaired ==
    (valPc = "fixed" /\ valXml.starts # "other")
        => fixResult = [xml |-> valXml, fixed |-> FALSE]

(***************************************************************************)
(* Properties of the display call.                                         *)
(***************************************************************************)
\* The repairs a display call has announced.
Repairs ==
    Cardinality({i \in 1..Len(dispMsgs) : dispMsgs[i] = "fixed"})

\* C21: a display call makes at most one repair: it announces at most one
\* repair, and the text it sends is the text it validated or that text
\* with one wrapper around it, never the repaired text repaired again.
AtMostOneRepair ==
    /\ Repairs <= 1
    /\ dispSent # NoText =>
          IF Repairs = 1 THEN dispSent = RootWrap(DisplayText(dispXml))
          ELSE dispSent = DisplayText(dispXml)

\* A display call has repaired its text, sent it and returned.
RepairedOnceAndSent ==
    /\ dispPc = "done"
    /\ Repairs = 1
    /\ dispSent = RootWrap(DisplayText(dispXml))
    /\ ~validate(DisplayText(dispXml), FALSE).valid

(***************************************************************************)
(* Properties of the apply call's error handling.                          *)
(***************************************************************************)
\* C22: a transport failure is retried before it is surfaced: the call
\* does not return on a failed submission at once, and the first failed
\* poll request of a call does not end the call.
TransportFailureIsRetried ==
    [][\A c \in Calls :
          /\ (pc[c] # "polling" /\ pc'[c] = "done")
                => outcome'[c].kind # "SubmitFailed"
          /\ (Polls(c) /\ lastResp[c] # "error" /\ lastResp'[c] = "error")
                => pc'[c] = "polling"]_vars

\* C23: tabs are independent: the Baseline of a tab changes only by a sync
\* that was issued for that tab (while that tab was the active one), also
\* when the human switches the tab between the two requests of the sync.
TabsAreIndependent ==
    [][/\ baseline' # baseline => syncTab = "t1"
       /\ otherBaseline' # otherBaseline => syncTab = "t2"]_vars

\* The service answers; the port is held by somebody.
Answering ==
    foreign = "service" \/ \E p \in 1..Len(procs) : procs[p] = "serving"

PortHeld ==
    foreign # "none" \/ \E p \in 1..Len(procs) : procs[p] = "serving"

Spawned == Len(procs') > Len(procs)

\* A step in which start_web_server is called.
StartStep == webPc = "idle" /\ (webPc' # "idle" \/ webResult' # webResult)

\* A step in which start_web_server returns v.
WebReturns(v) ==
    /\ webPc' = "idle" /\ webResult' = v
    /\ webPc # "idle" \/ webResult # v

\* C24: start_web_server follows its three cases: a service that already
\* answers gives success without a spawn; a port that is held while the
\* service does not answer within the wait gives failure without a spawn;
\* a process is spawned only when the port is free and auto-start is on;
\* and success is returned only in a step that observes the service
\* answering.
StartFollowsItsCases ==
    [][/\ (StartStep /\ Answering) => (webResult' = "True" /\ ~Spawned)
       /\ (StartStep /\ ~Answering /\ PortHeld)
             => (webPc' = "waitPort" /\ ~Spawned)
       /\ webPc = "waitPort"
             => /\ ~Spawned
                /\ webWaits < PortWaitBudget
                /\ (webPc' = "idle" /\ ~Answering)
                      => (webResult' = "False"
                            /\ webWaits + 1 = PortWaitBudget)
       /\ Spawned => (StartStep /\ ~PortHeld /\ auto_start_web)
       /\ WebReturns("True") => Answering]_vars

\* A call has spawned a child, has seen it answer and has returned success;
\* another call has waited for the holder of the port in vain.
SpawnedAndAnswered ==
    /\ webPc = "idle" /\ webResult = "True"
    /\ _web_process # 0 /\ procs[_web_process] = "serving"

PortWaitFailed ==
    webPc = "idle" /\ webResult = "False" /\ foreign = "other" /\ procs = <<>>

\* C30: after any sequence of start_web_server and stop_web_server calls
\* every child the client has spawned is the one it tracks or has ended,
\* so that a stop_web_server leaves no spawned child running.
EveryChildTrackedOrStopped ==
    \A p \in 1..Len(procs) :
       \/ p = _web_process
       \/ procs[p] \in {"exited", "stopped"}

\* C25: every poll response that is not pending ends the poll loop with a
\* Completed outcome: after an answer that carries a result, or that says
\* the request is unknown, the call has returned Completed (and so never
\* goes on to return TimedOut).
NonPendingEndsCompleted ==
    [][\A c \in Calls :
          (Polls(c) /\ lastResp'[c] \in {"completed", "no matching operation"})
             => (pc'[c] = "done" /\ outcome'[c].kind = "Completed")]_vars

\* The same for the answers that carry a result only.
ResultEndsCompleted ==
    [][\A c \in Calls :
          (Polls(c) /\ lastResp'[c] = "completed")
             => (pc'[c] = "done" /\ outcome'[c].kind = "Completed")]_vars

\* C26: no operation is a silent no-op: every operation of a call that is
\* of one of the six kinds is translated into a patch that is not empty,
\* and an operation of any other kind gets the outcome UnknownOperation.
NoSilentNoOp ==
    /\ \A c \in Calls : \A i \in 1..Len(callOps[c]) :
          callOps[c][i].op \in TargetKinds \cup AddKinds
             => operation_to_xml_patch(callOps[c][i]) # EmptyPatch
    /\ \A r \in RIds : \A i \in 1..Len(surf[r].outcomes) :
          surf[r].ops[i].op \notin TargetKinds \cup AddKinds
             => surf[r].outcomes[i].reason = "UnknownOperation"

StaleOnlyAfterHumanEdit ==
    humanEdits = 0 =>
       \A r \in RIds : \A i \in 1..Len(surf[r].outcomes) :
          surf[r].outcomes[i].reason # "StaleIntent"

\* The mxCells of a generated document, and its ids.
GenCells(i) == IterCells(genDocs[i])

GenIds(i) == {GenCells(i)[k].id : k \in 1..Len(GenCells(i))}

\* The parent chain of the cell with this id reaches "1" within n steps.
RECURSIVE ReachesLayer(_, _, _)
ReachesLayer(cells, id, n) ==
    \/ id = "1"
    \/ /\ n > 0
       /\ \E k \in 1..Len(cells) :
             cells[k].id = id /\ ReachesLayer(cells, cells[k].parent, n - 1)

\* C29: every document create_diagram has produced, whatever the type and
\* whatever calls came before, has the cells "0" and "1", pairwise distinct
\* ids with the generated ones above "1", every other cell's parent chain
\* ending in "1", every edge's ends among its cells, and is found valid.
GeneratedDocumentsAreSound ==
    \A i \in 1..Len(genDocs) :
       LET cells == GenCells(i) IN
       /\ {"0", "1"} \subseteq GenIds(i)
       /\ \A k, l \in 1..Len(cells) : cells[k].id = cells[l].id => k = l
       /\ \A k \in 3..Len(cells) :
             /\ \E n \in 2..(2 + Len(cells)) : cells[k].id = ToString(n)
             /\ ReachesLayer(cells, cells[k].parent, Len(cells))
             /\ cells[k].source # NoId => cells[k].source \in GenIds(i)
             /\ cells[k].target # NoId => cells[k].target \in GenIds(i)
             /\ ~cells[k].vertex =>
                   (cells[k].source # NoId /\ cells[k].target # NoId)
       /\ validate(genDocs[i], FALSE).valid

\* An ER diagram, with its fields inside the entity, made after a diagram
\* with an edge and another diagram.
ErAfterOtherDiagrams ==
    /\ Len(genDocs) = MaxCreates
    /\ \E k \in 1..Len(GenCells(1)) : ~GenCells(1)[k].vertex /\ k > 2
    /\ \E k \in 1..Len(GenCells(MaxCreates)) :
          GenCells(MaxCreates)[k].parent = "3"

====
